---- MODULE Spec2Model ----
(***************************************************************************)
(* NewsSynthesizer (src/main.py): the feed -> cluster -> analyse -> report  *)
(* pipeline of process_feeds (the later definition, lines 183-245, which    *)
(* overrides the one at lines 47-115), with _llm_generate and               *)
(* generate_unified_report modelled one loop iteration per step.            *)
(*                                                                         *)
(* Python values are records.  A str is                                     *)
(*   [type |-> "str", len, stripLen, sections, json]                        *)
(* len = len(s), stripLen = len(s.strip()), sections = the section          *)
(* headings that occur in s as substrings, json = what the text would       *)
(* decode to as JSON.  List indices are Python's (from 0); sequences are    *)
(* TLA+'s (from 1).  Delays are in quarter seconds, so that 1.5 ** attempt  *)
(* is an integer for every attempt the loops reach.                         *)
(***************************************************************************)
EXTENDS Integers, Sequences, FiniteSets, TLC

\* ---- bounds of the model ----
\* entries a feed's parse can return
MaxEntries == 2
\* articles collected in one run (further extractions come back empty)
MaxArticles == 2

\* ---- program constants ----
rss_feeds == <<"BBC News", "Reuters", "AP News">>
EntryLimit == 5
MinContentLen == 100
ContentCap == 2000
MAX_RETRIES == 3
retries == 3
MinReportLen == 400

Sections == {"Verified Facts", "Conflict Analysis", "Further Research Needed", "Conclusion"}

\* ---- Python values ----
NoJson == [valid |-> FALSE, hasGroups |-> FALSE, groups |-> <<>>]
JsonObject(hasGroups, groups) == [valid |-> TRUE, hasGroups |-> hasGroups, groups |-> groups]
Str(len, stripLen, sections, json) ==
    [type |-> "str", len |-> len, stripLen |-> stripLen, sections |-> sections, json |-> json]

\* an element of a decoded JSON list: an integer, or something else (a string)
IntElem(n) == [isInt |-> TRUE, val |-> n]
StrElem == [isInt |-> FALSE, val |-> 0]

EmptyStr == Str(0, 0, {}, NoJson)
\* "Could not generate complete report"
FailureMarker == Str(34, 34, {}, NoJson)
\* the string _llm_generate returns after its last attempt
Sentinel == Str(56, 56, {}, NoJson)

\* ---- what the model service can answer ----
BlankText == Str(3, 0, {}, NoJson)
MalformedText == Str(8, 8, {}, NoJson)
NoGroupsText == Str(15, 15, {}, JsonObject(FALSE, <<>>))
GroupsText == Str(18, 18, {}, JsonObject(TRUE, <<<<IntElem(0), IntElem(1)>>>>))
OutOfRangeText == Str(22, 22, {}, JsonObject(TRUE, <<<<IntElem(0)>>, <<IntElem(7)>>>>))
NonIntText == Str(22, 22, {}, JsonObject(TRUE, <<<<StrElem>>, <<IntElem(0)>>>>))
AnalysisText == Str(300, 300, {}, JsonObject(FALSE, <<>>))
FullReport == Str(MinReportLen, MinReportLen, Sections, NoJson)
ShortReport == Str(MinReportLen - 1, MinReportLen - 1, Sections, NoJson)
NoConclusionReport == Str(900, 900, Sections \ {"Conclusion"}, NoJson)

ServiceTexts(purpose) ==
    CASE purpose = "cluster" ->
            {BlankText, MalformedText, NoGroupsText, GroupsText, OutOfRangeText, NonIntText}
      [] purpose = "analyze" -> {BlankText, AnalysisText}
      [] purpose = "report" -> {BlankText, FullReport, ShortReport, NoConclusionReport}

\* lengths of the text an extraction can return ("" on failure)
ContentLens == {0, MinContentLen, 2500}

VARIABLES
    pc,             \* where process_feeds (or the call it awaits) stands
    feedIdx,        \* position in rss_feeds, 1..Len(rss_feeds)+1
    entriesLeft,    \* entries of the current feed still to visit
    entryIdx,       \* number of the entry being visited
    all_articles,
    caller,         \* who awaits _llm_generate: "cluster", "analyze", "report"
    format,         \* _llm_generate: its format argument, "json" or "none" (None)
    params,         \* _llm_generate: the parameters of the latest request of the call
    llmAttempt,     \* _llm_generate: attempts made in the current call
    llmDelays,      \* _llm_generate: the sleeps of the current call
    llmLog,         \* _llm_generate: what the service did at each request of the call
    ret,            \* the value _llm_generate returned
    clusters,
    clusterRaised,  \* every request of the clustering call raised
    valid_clusters,
    clusterIdx,     \* position in valid_clusters, from 1
    articles,
    analysis,
    report,
    reportCall,     \* 1: line 227, 2: line 232
    reportAttempt,  \* generate_unified_report: attempt
    reportDelays,   \* generate_unified_report: its own sleeps in the current call
    reportRequests, \* model requests made during the current generate_unified_report
    final_reports,
    analysisLog,    \* the groups analyze_articles was called for, in order
    failed          \* positions of the clusters whose processing raised

vars == <<pc, feedIdx, entriesLeft, entryIdx, all_articles, caller, format, params,
          llmAttempt, llmDelays, llmLog, ret, clusters, clusterRaised, valid_clusters,
          clusterIdx, articles, analysis, report, reportCall, reportAttempt, reportDelays,
          reportRequests, final_reports, analysisLog, failed>>

feedVars == <<feedIdx, entriesLeft, entryIdx, all_articles>>
llmVars == <<caller, format, params, llmAttempt, llmDelays, llmLog, ret>>
clusterVars == <<clusters, clusterRaised, valid_clusters>>
loopVars == <<clusterIdx, articles, analysis, report, final_reports, analysisLog, failed>>
reportVars == <<reportCall, reportAttempt, reportDelays, reportRequests>>

RECURSIVE Pow(_, _)
Pow(b, e) == IF e = 0 THEN 1 ELSE b * Pow(b, e - 1)

Min(a, b) == IF a < b THEN a ELSE b

\* no request was made yet
NoParams == [format |-> "none", temperature |-> 0]

Init ==
    /\ pc = "feed"
    /\ feedIdx = 1
    /\ entriesLeft = 0
    /\ entryIdx = 0
    /\ all_articles = <<>>
    /\ caller = "none"
    /\ format = "none"
    /\ params = NoParams
    /\ llmAttempt = 0
    /\ llmDelays = <<>>
    /\ llmLog = <<>>
    /\ ret = EmptyStr
    /\ clusters = EmptyStr
    /\ clusterRaised = FALSE
    /\ valid_clusters = <<>>
    /\ clusterIdx = 0
    /\ articles = <<>>
    /\ analysis = EmptyStr
    /\ report = EmptyStr
    /\ reportCall = 0
    /\ reportAttempt = 0
    /\ reportDelays = <<>>
    /\ reportRequests = 0
    /\ final_reports = <<>>
    /\ analysisLog = <<>>
    /\ failed = {}

\* ---- collecting the articles (lines 189-201) ----

\* feedparser.parse raises: control is in the feed's except clause
ParseFeedRaise ==
    /\ pc = "feed"
    /\ feedIdx <= Len(rss_feeds)
    /\ pc' = "feedExcept"
    /\ UNCHANGED <<feedIdx, entriesLeft, entryIdx, all_articles>>
    /\ UNCHANGED <<llmVars, clusterVars, loopVars, reportVars>>

\* feedparser.parse returns n entries; the loop visits entries[:5]
ParseFeed ==
    /\ pc = "feed"
    /\ feedIdx <= Len(rss_feeds)
    /\ \E n \in 0..MaxEntries :
        LET taken == Min(n, EntryLimit) IN
        IF taken = 0
        THEN /\ feedIdx' = feedIdx + 1
             /\ UNCHANGED <<pc, entriesLeft, entryIdx>>
        ELSE /\ pc' = "entry"
             /\ entriesLeft' = taken
             /\ entryIdx' = 1
             /\ UNCHANGED feedIdx
    /\ UNCHANGED all_articles
    /\ UNCHANGED <<llmVars, clusterVars, loopVars, reportVars>>

\* after an entry: the next entry, or the next feed
NextEntry(left) ==
    IF left > 1
    THEN /\ entriesLeft' = left - 1
         /\ entryIdx' = entryIdx + 1
         /\ UNCHANGED <<pc, feedIdx>>
    ELSE /\ entriesLeft' = 0
         /\ entryIdx' = 0
         /\ pc' = "feed"
         /\ feedIdx' = feedIdx + 1

\* lines 195-199; content is its length.  The entries of one feed are not told
\* apart by title: the pipeline reads a title only to pass it on.
Article(feed, contentLen) ==
    [title |-> feed, source |-> rss_feeds[feed], content |-> Min(contentLen, ContentCap)]

\* lines 193-199: _scrape_article never raises (it returns "" instead)
ScrapeEntry ==
    /\ pc = "entry"
    /\ \E n \in ContentLens :
        /\ n > MinContentLen => Len(all_articles) < MaxArticles
        /\ all_articles' = IF n > MinContentLen
                           THEN Append(all_articles, Article(feedIdx, n))
                           ELSE all_articles
    /\ NextEntry(entriesLeft)
    /\ UNCHANGED <<llmVars, clusterVars, loopVars, reportVars>>

\* an entry without link or title: AttributeError inside the feed's try
EntryRaise ==
    /\ pc = "entry"
    /\ pc' = "feedExcept"
    /\ entriesLeft' = 0
    /\ entryIdx' = 0
    /\ UNCHANGED <<feedIdx, all_articles>>
    /\ UNCHANGED <<llmVars, clusterVars, loopVars, reportVars>>

\* lines 200-201: the exception is printed, the loop takes the next feed
FeedExcept ==
    /\ pc = "feedExcept"
    /\ pc' = "feed"
    /\ feedIdx' = feedIdx + 1
    /\ UNCHANGED <<entriesLeft, entryIdx, all_articles>>
    /\ UNCHANGED <<llmVars, clusterVars, loopVars, reportVars>>

\* ---- _llm_generate (lines 160-181) ----

\* lines 164-170: the request of attempt a; temperature in tenths
Params(fmt, a) == [format |-> fmt, temperature |-> 3 + 2 * a]

\* mutant of LlmDelay: 1.5 ** -attempt
LlmDelayShrinking(a) == (4 * Pow(2, a)) \div Pow(3, a)

\* line 180: 1.5 ** attempt seconds, in quarter seconds
LlmDelay(a) == (4 * Pow(3, a)) \div Pow(2, a)

\* the caller's state after _llm_generate returned
ReturnPoint(c) ==
    CASE c = "cluster" -> "clusterRet"
      [] c = "analyze" -> "analyzeRet"
      [] c = "report" -> "reportRet"

\* the call of _llm_generate(prompt, format=fmt) by c
CallLlm(c, fmt) ==
    /\ pc' = "llm"
    /\ caller' = c
    /\ format' = fmt
    /\ params' = NoParams
    /\ llmAttempt' = 0
    /\ llmDelays' = <<>>
    /\ llmLog' = <<>>
    /\ ret' = EmptyStr

Raised == [kind |-> "raise", text |-> EmptyStr]
Answered(content) == [kind |-> "text", text |-> content]

\* line 172: one request to the service, with what came of it
Request(outcome) ==
    /\ params' = Params(format, llmAttempt)
    /\ llmLog' = Append(llmLog, outcome)
    /\ reportRequests' = IF caller = "report" THEN reportRequests + 1 ELSE reportRequests

\* mutant of AfterFailedAttempt: the last (empty) content is returned, as by a
\* "return content" after the loop
AfterFailedAttemptEmpty(a) ==
    IF a + 1 < retries
    THEN UNCHANGED <<pc, ret>>
    ELSE /\ ret' = EmptyStr
         /\ pc' = ReturnPoint(caller)

\* the loop is over after attempt a: line 181
AfterFailedAttempt(a) ==
    IF a + 1 < retries
    THEN UNCHANGED <<pc, ret>>
    ELSE /\ ret' = Sentinel
         /\ pc' = ReturnPoint(caller)

\* mutant of LlmRaise: "while True" instead of "for attempt in range(retries)"
LlmRaiseUnbounded ==
    /\ pc = "llm"
    /\ Request(Raised)
    /\ llmDelays' = Append(llmDelays, LlmDelay(llmAttempt))
    /\ llmAttempt' = llmAttempt + 1
    /\ UNCHANGED <<pc, ret, caller, format>>
    /\ UNCHANGED <<feedVars, clusterVars, loopVars, reportCall, reportAttempt, reportDelays>>

\* the request raises: lines 178-180
LlmRaise ==
    /\ pc = "llm"
    /\ llmAttempt < retries
    /\ Request(Raised)
    /\ llmDelays' = Append(llmDelays, LlmDelay(llmAttempt))
    /\ llmAttempt' = llmAttempt + 1
    /\ AfterFailedAttempt(llmAttempt)
    /\ UNCHANGED <<caller, format>>
    /\ UNCHANGED <<feedVars, clusterVars, loopVars, reportCall, reportAttempt, reportDelays>>

\* the answer is empty after strip(): line 175 fails, next attempt without a sleep
LlmEmpty ==
    /\ pc = "llm"
    /\ llmAttempt < retries
    /\ \E content \in ServiceTexts(caller) :
        /\ content.stripLen = 0
        /\ Request(Answered(content))
    /\ llmAttempt' = llmAttempt + 1
    /\ AfterFailedAttempt(llmAttempt)
    /\ UNCHANGED <<caller, format, llmDelays>>
    /\ UNCHANGED <<feedVars, clusterVars, loopVars, reportCall, reportAttempt, reportDelays>>

\* lines 175-176: a non-empty answer is returned as it is
LlmContent ==
    /\ pc = "llm"
    /\ llmAttempt < retries
    /\ \E content \in ServiceTexts(caller) :
        /\ content.stripLen > 0
        /\ Request(Answered(content))
        /\ ret' = content
    /\ llmAttempt' = llmAttempt + 1
    /\ pc' = ReturnPoint(caller)
    /\ UNCHANGED <<caller, format, llmDelays>>
    /\ UNCHANGED <<feedVars, clusterVars, loopVars, reportCall, reportAttempt, reportDelays>>

\* ---- clustering (lines 204-221) ----

\* mutant of CallCluster: lines 204-208 are indented into the feed loop
CallClusterInLoop ==
    /\ pc = "feed"
    /\ CallLlm("cluster", "json")
    /\ UNCHANGED <<feedVars, clusterVars, loopVars, reportVars>>

\* line 208
CallCluster ==
    /\ pc = "feed"
    /\ feedIdx > Len(rss_feeds)
    /\ CallLlm("cluster", "json")
    /\ UNCHANGED <<feedVars, clusterVars, loopVars, reportVars>>

IsIntList(group) == \A k \in 1..Len(group) : group[k].isInt

\* mutant of ValidGroups: the text is decoded (json.loads) before the checks
ValidGroupsDecoded(c) ==
    IF c.json.valid /\ c.json.hasGroups
    THEN SelectSeq(c.json.groups, IsIntList)
    ELSE <<>>

\* lines 211-215
ValidGroups(c) ==
    IF c.type = "dict" /\ c.json.hasGroups
    THEN SelectSeq(c.json.groups, IsIntList)
    ELSE <<>>

\* mutant of Singletons: range(n + 1)
SingletonsOneMore(n) == [k \in 1..(n + 1) |-> <<IntElem(k - 1)>>]

\* [[i] for i in range(n)]
Singletons(n) == [k \in 1..n |-> <<IntElem(k - 1)>>]

\* mutant of ClusterAssignment: lines 218-219 are missing
ClusterAssignmentNoFallback(c, n) == ValidGroups(c)

\* lines 211-219
ClusterAssignment(c, n) ==
    IF ValidGroups(c) = <<>> THEN Singletons(n) ELSE ValidGroups(c)

ValidateClusters ==
    /\ pc = "clusterRet"
    /\ clusters' = ret
    /\ clusterRaised' = (Len(llmLog) = retries /\ \A k \in 1..Len(llmLog) : llmLog[k] = Raised)
    /\ valid_clusters' = ClusterAssignment(ret, Len(all_articles))
    /\ final_reports' = <<>>
    /\ clusterIdx' = 1
    /\ pc' = "loop"
    /\ UNCHANGED <<articles, analysis, report, analysisLog, failed>>
    /\ UNCHANGED <<feedVars, llmVars, reportVars>>

\* ---- one cluster (lines 222-243) ----

\* line 225: [all_articles[i] for i in group if i < len(all_articles)]
ArticlesOf(group, all) ==
    LET kept == SelectSeq(group, LAMBDA e : e.val < Len(all))
    IN [k \in 1..Len(kept) |-> all[kept[k].val + 1]]

\* lines 223-226 and 127: the next group, its articles, the analysis request
BeginCluster ==
    /\ pc = "loop"
    /\ clusterIdx <= Len(valid_clusters)
    /\ report' = EmptyStr
    /\ articles' = ArticlesOf(valid_clusters[clusterIdx], all_articles)
    /\ analysisLog' = Append(analysisLog, valid_clusters[clusterIdx])
    /\ CallLlm("analyze", "json")
    /\ UNCHANGED <<clusterIdx, analysis, final_reports, failed>>
    /\ UNCHANGED <<feedVars, clusterVars, reportVars>>

\* line 245
ReturnReports ==
    /\ pc = "loop"
    /\ clusterIdx > Len(valid_clusters)
    /\ pc' = "done"
    /\ UNCHANGED <<feedVars, llmVars, clusterVars, loopVars, reportVars>>

\* ---- generate_unified_report (lines 129-152) ----

\* mutant of ReportFormat: format='json' on every attempt
ReportFormatJson(attempt) == "json"

\* line 144: format='json' if attempt == 0 else None
ReportFormat(attempt) == IF attempt = 0 THEN "json" ELSE "none"

\* line 150: 2 ** attempt seconds, in quarter seconds
ReportDelay(attempt) == 4 * Pow(2, attempt)

\* mutant of ValidateReport: any(...) instead of all(...)
ValidateReportAny(text) == \E section \in Sections : section \in text.sections

\* lines 154-157
ValidateReport(text) == \A section \in Sections : section \in text.sections

\* the call generate_unified_report(analysis), up to its first request
CallReport(n) ==
    /\ reportCall' = n
    /\ reportAttempt' = 0
    /\ reportDelays' = <<>>
    /\ reportRequests' = 0
    /\ CallLlm("report", ReportFormat(0))

\* mutant of AfterReport: "while len(report) < 400" instead of "if"
AfterReportGate(n) == "gate"

\* where process_feeds continues after the call of line 227 or line 232
AfterReport(n) == IF n = 1 THEN "gate" ELSE "append"

\* mutant of AnalyzeReturn: a cluster whose analysis failed is skipped
AnalyzeReturnSkipsFailure ==
    /\ pc = "analyzeRet"
    /\ analysis' = ret
    /\ IF ret = Sentinel
       THEN /\ pc' = "loop"
            /\ clusterIdx' = clusterIdx + 1
            /\ UNCHANGED <<reportVars, llmVars>>
       ELSE /\ CallReport(1)
            /\ UNCHANGED clusterIdx
    /\ UNCHANGED <<articles, report, final_reports, analysisLog, failed>>
    /\ UNCHANGED <<feedVars, clusterVars>>

\* lines 226-227: the analysis is stored and handed to generate_unified_report
AnalyzeReturn ==
    /\ pc = "analyzeRet"
    /\ analysis' = ret
    /\ CallReport(1)
    /\ UNCHANGED <<clusterIdx, articles, report, final_reports, analysisLog, failed>>
    /\ UNCHANGED <<feedVars, clusterVars>>

\* mutant of ReportValid: the sleep of line 150 also runs before the return
ReportValidSleeps ==
    /\ pc = "reportRet"
    /\ ValidateReport(ret)
    /\ report' = ret
    /\ pc' = AfterReport(reportCall)
    /\ reportDelays' = Append(reportDelays, ReportDelay(reportAttempt))
    /\ UNCHANGED <<reportCall, reportAttempt, reportRequests>>
    /\ UNCHANGED <<clusterIdx, articles, analysis, final_reports, analysisLog, failed>>
    /\ UNCHANGED <<feedVars, clusterVars>>
    /\ UNCHANGED llmVars

\* lines 146-147: the response has every section, it is returned
ReportValid ==
    /\ pc = "reportRet"
    /\ ValidateReport(ret)
    /\ report' = ret
    /\ pc' = AfterReport(reportCall)
    /\ UNCHANGED <<clusterIdx, articles, analysis, final_reports, analysisLog, failed>>
    /\ UNCHANGED <<feedVars, clusterVars, reportVars>>
    /\ UNCHANGED llmVars

\* mutant of ReportInvalid: no sleep after the last attempt
ReportInvalidNoFinalSleep ==
    /\ pc = "reportRet"
    /\ ~ValidateReport(ret)
    /\ reportAttempt' = reportAttempt + 1
    /\ IF reportAttempt + 1 < MAX_RETRIES
       THEN /\ reportDelays' = Append(reportDelays, ReportDelay(reportAttempt))
            /\ CallLlm("report", ReportFormat(reportAttempt + 1))
            /\ UNCHANGED report
       ELSE /\ report' = FailureMarker
            /\ pc' = AfterReport(reportCall)
            /\ UNCHANGED reportDelays
            /\ UNCHANGED llmVars
    /\ UNCHANGED <<reportCall, reportRequests>>
    /\ UNCHANGED <<clusterIdx, articles, analysis, final_reports, analysisLog, failed>>
    /\ UNCHANGED <<feedVars, clusterVars>>

\* lines 146, 150, 134 and 152: sleep, then the next attempt or the failure marker
ReportInvalid ==
    /\ pc = "reportRet"
    /\ ~ValidateReport(ret)
    /\ reportDelays' = Append(reportDelays, ReportDelay(reportAttempt))
    /\ reportAttempt' = reportAttempt + 1
    /\ IF reportAttempt + 1 < MAX_RETRIES
       THEN /\ CallLlm("report", ReportFormat(reportAttempt + 1))
            /\ UNCHANGED report
       ELSE /\ report' = FailureMarker
            /\ pc' = AfterReport(reportCall)
            /\ UNCHANGED llmVars
    /\ UNCHANGED <<reportCall, reportRequests>>
    /\ UNCHANGED <<clusterIdx, articles, analysis, final_reports, analysisLog, failed>>
    /\ UNCHANGED <<feedVars, clusterVars>>

\* ---- the rest of the cluster (lines 230-243) ----

\* lines 230-232: a report under 400 characters is generated once more
Regenerate ==
    /\ pc = "gate"
    /\ report.len < MinReportLen
    /\ CallReport(2)
    /\ UNCHANGED <<clusterIdx, articles, analysis, report, final_reports, analysisLog, failed>>
    /\ UNCHANGED <<feedVars, clusterVars>>

\* line 230, the condition is false
KeepReport ==
    /\ pc = "gate"
    /\ report.len >= MinReportLen
    /\ pc' = "append"
    /\ UNCHANGED <<feedVars, llmVars, clusterVars, loopVars, reportVars>>

\* lines 237-241
Record(arts, rep) ==
    [headline |-> arts[1].title,
     sources |-> {arts[k].source : k \in 1..Len(arts)},
     report |-> rep]

\* the iteration is over: the frame of generate_unified_report is gone
NextCluster ==
    /\ clusterIdx' = clusterIdx + 1
    /\ pc' = "loop"
    /\ reportCall' = 0
    /\ reportAttempt' = 0
    /\ reportDelays' = <<>>
    /\ reportRequests' = 0

\* mutant of ClusterExcept: the try statement encloses the loop, not its body
ClusterExceptLeavesLoop ==
    /\ failed' = failed \cup {clusterIdx}
    /\ pc' = "done"
    /\ UNCHANGED <<clusterIdx, final_reports, reportVars>>

\* lines 242-243: the exception is printed, the loop goes on
ClusterExcept ==
    /\ failed' = failed \cup {clusterIdx}
    /\ NextCluster
    /\ UNCHANGED final_reports

\* lines 234-241; articles[0] raises IndexError when no index was in range
AppendReport ==
    /\ pc = "append"
    /\ IF report.stripLen = 0
       THEN /\ NextCluster
            /\ UNCHANGED <<final_reports, failed>>
       ELSE IF articles = <<>>
       THEN ClusterExcept
       ELSE /\ final_reports' = Append(final_reports, Record(articles, report))
            /\ NextCluster
            /\ UNCHANGED failed
    /\ UNCHANGED <<articles, analysis, report, analysisLog>>
    /\ UNCHANGED <<feedVars, llmVars, clusterVars>>

\* the interpreter raises while the record is built (MemoryError in the list
\* and set constructions of lines 237-241): caught at line 242
ClusterRaise ==
    /\ pc = "append"
    /\ ClusterExcept
    /\ UNCHANGED <<articles, analysis, report, analysisLog>>
    /\ UNCHANGED <<feedVars, llmVars, clusterVars>>

Next ==
    \/ ParseFeedRaise
    \/ ParseFeed
    \/ ScrapeEntry
    \/ EntryRaise
    \/ FeedExcept
    \/ CallCluster
    \/ LlmRaise
    \/ LlmEmpty
    \/ LlmContent
    \/ ValidateClusters
    \/ BeginCluster
    \/ ReturnReports
    \/ AnalyzeReturn
    \/ ReportValid
    \/ ReportInvalid
    \/ Regenerate
    \/ KeepReport
    \/ AppendReport
    \/ ClusterRaise

Spec == Init /\ [][Next]_vars

\* every awaited call (extraction, model request, sleep) returns or raises, and
\* the interpreter then takes the next step
FairSpec == Init /\ [][Next]_vars /\ WF_vars(Next)

\* ======================= the claims =======================

NumArticles == Len(all_articles)

\* ValidateClusters has run
Clustered == clusterIdx > 0

\* _llm_generate has just returned to its caller
LlmReturned == pc \in {"clusterRet", "analyzeRet", "reportRet"}

\* generate_unified_report has just returned into report
ReportReturned == pc \in {"gate", "append"}

HasAllSections(text) == Sections \subseteq text.sections

IsSingletonPartition(groups, n) ==
    /\ Len(groups) = n
    /\ \A k \in 1..n : groups[k] = <<IntElem(k - 1)>>

InRange(e, n) == e.isInt /\ e.val >= 0 /\ e.val < n

HasBadIndex(c, n) ==
    \E g \in 1..Len(c.json.groups) :
        \E k \in 1..Len(c.json.groups[g]) : ~InRange(c.json.groups[g][k], n)

\* malformed JSON, no 'groups', or a group with a non-integer or out-of-range index
BadGrouping(c, n) == ~c.json.valid \/ ~c.json.hasGroups \/ HasBadIndex(c, n)

WellFormedGrouping(c, n) ==
    /\ c.json.valid
    /\ c.json.hasGroups
    /\ Len(c.json.groups) > 0
    /\ \A g \in 1..Len(c.json.groups) : Len(c.json.groups[g]) > 0
    /\ ~HasBadIndex(c, n)

NonDecreasing(delays) == \A k \in 1..(Len(delays) - 1) : delays[k] <= delays[k + 1]

NonEmptyAnswer(entry) == entry.kind = "text" /\ entry.text.stripLen > 0

\* C1: when the clustering response is malformed JSON, has no 'groups', or has a
\* group with a non-integer or out-of-range index, the assignment process_feeds
\* iterates over is the singleton partition [[0],...,[N-1]].
C1_FallbackDeterminism ==
    (Clustered /\ BadGrouping(clusters, NumArticles))
        => IsSingletonPartition(valid_clusters, NumArticles)

C1_Witness ==
    /\ Clustered
    /\ clusters = OutOfRangeText
    /\ NumArticles = 2
    /\ pc = "done"

\* C2 (as claimed): a well-formed grouping of in-range indices is honoured: with
\* every later stage succeeding, process_feeds returns one report per returned
\* group, each with the sources of the group's articles.
SourcesOf(group) == {all_articles[group[k].val + 1].source : k \in 1..Len(group)}

C2_GroupingHonoured ==
    (/\ pc = "done"
     /\ WellFormedGrouping(clusters, NumArticles)
     /\ failed = {}
     /\ \A k \in 1..Len(final_reports) : HasAllSections(final_reports[k].report))
        => /\ Len(final_reports) = Len(clusters.json.groups)
           /\ \A k \in 1..Len(final_reports) :
                final_reports[k].sources = SourcesOf(clusters.json.groups[k])

\* C3: what generate_unified_report returns has all four section markers or is
\* the failure marker; it is never the sentinel of _llm_generate.
C3_ValidationCompleteness ==
    ReportReturned =>
        /\ HasAllSections(report) \/ report = FailureMarker
        /\ report # Sentinel

C3_Witness ==
    /\ pc = "gate"
    /\ report = FailureMarker
    /\ ret = Sentinel
    /\ \E k \in 1..Len(llmLog) : llmLog[k] = Raised

\* C4 (as claimed): one _llm_generate call makes at most 3 requests, and one
\* generate_unified_report call causes at most 3 requests in total.
C4_RetryBoundAsClaimed ==
    /\ Len(llmLog) <= retries
    /\ reportRequests <= MAX_RETRIES

\* C4 (amended): one _llm_generate call makes at most 3 requests; one
\* generate_unified_report call makes at most 3 attempts, each a call of
\* _llm_generate, so it causes at most 3 * 3 = 9 requests.
C4_RetryBound ==
    /\ Len(llmLog) <= retries
    /\ reportAttempt <= MAX_RETRIES
    /\ reportRequests <= MAX_RETRIES * retries

C4_Witness ==
    /\ ReportReturned
    /\ reportRequests = MAX_RETRIES * retries
    /\ Len(llmLog) = retries

\* C5 (as claimed): the list process_feeds returns has no record whose body is
\* the failure marker.
C5_MarkerExcluded ==
    pc = "done" => \A k \in 1..Len(final_reports) : final_reports[k].report # FailureMarker

\* C6: an exception while a cluster is processed is caught: that cluster adds no
\* record (every other finished cluster added one), no exception leaves
\* process_feeds, and every cluster of the list is still processed.
ClustersFinished == IF clusterIdx = 0 THEN 0 ELSE clusterIdx - 1

C6_ClusterIsolation ==
    /\ pc # "raised"
    /\ failed \subseteq 1..ClustersFinished
    /\ Len(final_reports) = ClustersFinished - Cardinality(failed)
    /\ pc = "done" => /\ ClustersFinished = Len(valid_clusters)
                      /\ analysisLog = valid_clusters

C6_Witness ==
    /\ pc = "done"
    /\ Len(valid_clusters) = 2
    /\ failed = {1}
    /\ Len(final_reports) = 1
    /\ HasAllSections(final_reports[1].report)

\* C7: when attempt k of generate_unified_report is the first whose text passes
\* validation, exactly that text is returned, it is the last request made, and
\* the call has slept k-1 times (reportAttempt = k-1).
C7_FirstValidWins ==
    (ReportReturned /\ report # FailureMarker) =>
        /\ report = ret
        /\ llmLog # <<>>
        /\ llmLog[Len(llmLog)] = Answered(report)
        /\ reportAttempt < MAX_RETRIES
        /\ Len(reportDelays) = reportAttempt

C7_Witness ==
    /\ pc = "gate"
    /\ report = FullReport
    /\ reportAttempt = 2
    /\ Len(reportDelays) = 2

\* C8: _llm_generate returns the first non-empty answer of its (at most 3)
\* requests and stops there; when every request raised or was answered with
\* nothing but whitespace it returns the sentinel; it never raises.
C8_OutcomeIsData ==
    /\ pc # "raised"
    /\ LlmReturned =>
        /\ Len(llmLog) \in 1..retries
        /\ \A k \in 1..(Len(llmLog) - 1) : ~NonEmptyAnswer(llmLog[k])
        /\ IF NonEmptyAnswer(llmLog[Len(llmLog)])
           THEN ret = llmLog[Len(llmLog)].text
           ELSE Len(llmLog) = retries /\ ret = Sentinel

C8_Witness ==
    /\ LlmReturned
    /\ ret = Sentinel
    /\ llmLog = <<Raised, Answered(BlankText), Raised>>

\* C9: the sleeps of one _llm_generate call, and the own sleeps of one
\* generate_unified_report call, are non-decreasing.
C9_BackoffOrdering ==
    /\ NonDecreasing(llmDelays)
    /\ NonDecreasing(reportDelays)

C9_Witness ==
    /\ Len(llmDelays) = 3
    /\ Len(reportDelays) = 3

\* C10: when the clustering request raises on all 3 attempts, no exception
\* reaches process_feeds, the assignment is the singleton partition, and
\* analyze_articles is called once per article, in article order.
C10_TransportFallback ==
    (Clustered /\ clusterRaised) =>
        /\ pc # "raised"
        /\ clusters = Sentinel
        /\ IsSingletonPartition(valid_clusters, NumArticles)
        /\ Len(analysisLog) <= Len(valid_clusters)
        /\ analysisLog = SubSeq(valid_clusters, 1, Len(analysisLog))
        /\ pc = "done" => Len(analysisLog) = NumArticles

C10_Witness ==
    /\ pc = "done"
    /\ clusterRaised
    /\ NumArticles = 2
    /\ Len(analysisLog) = 2

\* every feed of rss_feeds has been visited
FeedsDone == feedIdx > Len(rss_feeds)

\* C11: when no article was collected, process_feeds goes from the clustering
\* request straight to its return: no analyze_articles call, no
\* generate_unified_report call, no exception, and the list returned is empty.
C11_EmptyInput ==
    (FeedsDone /\ NumArticles = 0) =>
        /\ pc \in {"feed", "llm", "clusterRet", "loop", "done"}
        /\ caller \in {"none", "cluster"}
        /\ analysisLog = <<>>
        /\ reportCall = 0
        /\ final_reports = <<>>
        /\ failed = {}

C11_Witness ==
    /\ pc = "done"
    /\ NumArticles = 0
    /\ final_reports = <<>>
    /\ clusters # EmptyStr

\* C12 (as claimed): when the try block of a feed raised, none of that feed's
\* articles is among the collected articles.
C12_FeedIsolation ==
    pc = "feedExcept" =>
        \A k \in 1..NumArticles : all_articles[k].source # rss_feeds[feedIdx]

\* C13 (as claimed): in _llm_generate a backoff wait was performed after every
\* attempt that is followed by another one, whether it raised or was answered
\* with an empty text.
C13_BackoffBetweenAttempts ==
    pc = "llm" => Len(llmDelays) = llmAttempt

\* C14 (as claimed): generate_unified_report is called at most twice for a
\* cluster, and the second call is made exactly when the first returned a
\* validated report of fewer than 400 characters.
ValidButShort(text) == HasAllSections(text) /\ text.len < MinReportLen

C14_QualityGate ==
    /\ reportCall <= 2
    /\ (reportCall = 2 /\ pc \in {"llm", "reportRet"}) => ValidButShort(report)
    /\ (reportCall = 1 /\ pc = "append") => ~ValidButShort(report)

\* C15: every request of attempt 0 of generate_unified_report asks for JSON,
\* every request of its attempts 1 and 2 is plain text, and every request of
\* the clustering and analysis calls asks for JSON.
RequestMade == pc \in {"llm", "clusterRet", "analyzeRet", "reportRet"} /\ llmLog # <<>>

C15_StructuredMode ==
    RequestMade =>
        /\ params.temperature = 3 + 2 * (Len(llmLog) - 1)
        /\ IF caller = "report"
           THEN params.format = "json" <=> reportAttempt = 0
           ELSE params.format = "json"

C15_Witness ==
    /\ pc = "llm"
    /\ caller = "report"
    /\ reportAttempt = 2
    /\ Len(llmLog) = 2
    /\ params.format = "none"

\* C16: process_feeds is at one place at a time; the clustering request is made
\* only after the last feed; within a cluster generate_unified_report starts
\* only after analyze_articles returned; a cluster is begun only when every
\* earlier cluster is finished.
C16_StrictSequencing ==
    /\ pc \notin {"feed", "entry", "feedExcept"} => FeedsDone
    /\ (pc = "llm" /\ caller = "cluster") => (~Clustered /\ analysisLog = <<>>)
    /\ (pc \in {"llm", "analyzeRet"} /\ caller = "analyze") =>
            (reportCall = 0 /\ Len(analysisLog) = clusterIdx)
    /\ (pc \in {"llm", "reportRet"} /\ caller = "report") =>
            (reportCall \in {1, 2} /\ Len(analysisLog) = clusterIdx)
    /\ Clustered => Len(analysisLog) \in {ClustersFinished, ClustersFinished + 1}

C16_Witness ==
    /\ pc = "llm"
    /\ caller = "report"
    /\ clusterIdx = 2
    /\ Len(analysisLog) = 2
    /\ Len(final_reports) = 1

\* C17: when no request of analyze_articles got a non-empty answer, it returns
\* the sentinel, and the next step of process_feeds is the call of
\* generate_unified_report with the sentinel as its analysis; the cluster is
\* not skipped.
AnalysisFailed ==
    /\ pc = "analyzeRet"
    /\ \A k \in 1..Len(llmLog) : ~NonEmptyAnswer(llmLog[k])

C17_SentinelPropagated ==
    [][AnalysisFailed =>
            /\ ret = Sentinel
            /\ analysis' = Sentinel
            /\ pc' = "llm"
            /\ caller' = "report"
            /\ reportCall' = 1
            /\ clusterIdx' = clusterIdx
            /\ failed' = failed]_vars

C17_Witness ==
    /\ pc = "reportRet"
    /\ analysis = Sentinel
    /\ reportCall = 1
    /\ ret = FullReport

\* C19: generate_unified_report sleeps after every failed attempt, the last one
\* included: it returns the failure marker after three sleeps of 1, 2 and 4
\* seconds.  _llm_generate sleeps after every request that raised, the last one
\* included (2.25 seconds) before it returns the sentinel.
RaisesIn(log) == Cardinality({k \in 1..Len(log) : log[k] = Raised})

C19_WaitAfterEveryFailure ==
    /\ Len(llmDelays) = RaisesIn(llmLog)
    /\ (LlmReturned /\ Len(llmLog) = retries /\ llmLog[retries] = Raised) =>
            (ret = Sentinel /\ llmDelays[Len(llmDelays)] = 9)
    /\ (pc \in {"llm", "reportRet"} /\ caller = "report") => Len(reportDelays) = reportAttempt
    /\ (ReportReturned /\ report = FailureMarker) =>
            (reportAttempt = MAX_RETRIES /\ reportDelays = <<4, 8, 16>>)

C19_Witness ==
    /\ pc = "gate"
    /\ report = FailureMarker
    /\ Len(reportDelays) = 3
    /\ llmLog = <<Answered(BlankText), Answered(BlankText), Raised>>
    /\ llmDelays = <<9>>

\* C18: when every external call returns or raises, process_feeds returns; the
\* work of one cluster is bounded: one analysis call of at most 3 requests and
\* at most 2 generate_unified_report calls of at most 3 attempts of at most 3
\* requests each (9 requests per call).
WorkBound ==
    /\ Len(llmLog) <= retries
    /\ reportCall <= 2
    /\ reportAttempt <= MAX_RETRIES
    /\ reportRequests <= MAX_RETRIES * retries
    /\ (pc \in {"llm", "analyzeRet"} /\ caller = "analyze") => reportRequests = 0

C18_BoundedTermination ==
    /\ <>(pc = "done")
    /\ []WorkBound

C18_Witness ==
    /\ pc = "append"
    /\ analysis = Sentinel
    /\ reportCall = 2
    /\ reportRequests = MAX_RETRIES * retries
    /\ report = FailureMarker
====
